---- MODULE Spec2Model ----
(***************************************************************************)
(* A model of MusicManager (manage_music_lib.py): the loaders that fill    *)
(* the artist table, the album table, the name mapping, the followed       *)
(* ("seated") artist list and the exclude set, and the views computed from *)
(* them (roster, top artists, missing artists).                            *)
(*                                                                         *)
(* Python strings are modelled as tuples of one-character strings, so that *)
(* the regular expression of _clean_album_title, str.strip and the         *)
(* lexicographic order used by sorted() are computed character by          *)
(* character.  A pandas DataFrame is a record of its set of column labels  *)
(* and its sequence of rows; a row is a function from column label to      *)
(* cell.                                                                   *)
(***************************************************************************)
EXTENDS Integers, Sequences, FiniteSets, TLC

VARIABLES
    artist_data,          \* self.artist_data
    album_data,           \* self.album_data
    seated_artist_data,   \* self.seated_artist_data
    cleanup_review,       \* self.cleanup_review
    artist_name_mapping,  \* self.artist_name_mapping
    exclude_artists,      \* self.exclude_artists
    ret,                  \* the last call: its name, argument, return value and printed message
    title,                \* the argument handed to _clean_album_title in SpecTitle
    artist_raw,           \* history: the raw 'name' column of the file behind artist_data
    album_raw,            \* history: the raw 'artist' column of the file behind album_data
    mapping_late          \* history: the mapping was replaced after a table had been stored

vars == <<artist_data, album_data, seated_artist_data, cleanup_review,
          artist_name_mapping, exclude_artists, ret, title,
          artist_raw, album_raw, mapping_late>>

(***************************************************************************)
(* Bounds of the model.                                                    *)
(***************************************************************************)
MaxChunks == 6        \* pieces a title of SpecTitle is made of
MaxMapRows == 2       \* rows of a mapping file
MaxArtistRows == 1    \* rows of an artist file (Spec)
MaxAlbumRows == 2     \* rows of an album file (Spec)
MaxLibRows == 1       \* rows of an artist or album file (SpecReconcile)
MaxFollowed == 2      \* lines of a followed-artist file
MaxExcluded == 2      \* lines of an exclude file

SeqsUpTo(S, n) == UNION {[1..k -> S] : k \in 0..n}

(***************************************************************************)
(* Strings.                                                                *)
(***************************************************************************)
\* ord() of the characters the model uses
Ord(c) ==
    CASE c = " " -> 32  [] c = "(" -> 40  [] c = ")" -> 41
      [] c = "A" -> 65  [] c = "B" -> 66  [] c = "C" -> 67
      [] c = "M" -> 77  [] c = "[" -> 91  [] c = "]" -> 93
      [] c = "i" -> 105 [] c = "m" -> 109 [] c = "x" -> 120

\* Python's < on str: lexicographic by code point
RECURSIVE StrLess(_, _)
StrLess(a, b) ==
    IF b = <<>> THEN FALSE
    ELSE IF a = <<>> THEN TRUE
    ELSE IF Ord(a[1]) # Ord(b[1]) THEN Ord(a[1]) < Ord(b[1])
    ELSE StrLess(Tail(a), Tail(b))

\* sorted(S) for a set of strings
RECURSIVE sorted(_)
sorted(S) ==
    IF S = {} THEN <<>>
    ELSE LET m == CHOOSE x \in S : \A y \in S \ {x} : StrLess(x, y)
         IN  <<m>> \o sorted(S \ {m})

\* the characters \s matches and str.strip removes
Whitespace == {" "}

RECURSIVE lstrip(_)
lstrip(s) == IF s # <<>> /\ s[1] \in Whitespace THEN lstrip(Tail(s)) ELSE s

RECURSIVE rstrip(_)
rstrip(s) ==
    IF s # <<>> /\ s[Len(s)] \in Whitespace
    THEN rstrip(SubSeq(s, 1, Len(s) - 1)) ELSE s

strip(s) == rstrip(lstrip(s))

(***************************************************************************)
(* _clean_album_title: re.sub of                                           *)
(*   \s*[\(\[][^()\[\]]*(remaster|deluxe|bonus|mix|mix|edition)[^()\[\]]*[\)\]] *)
(* with re.IGNORECASE, then strip.                                         *)
(***************************************************************************)
Openers == {"(", "["}
Closers == {")", "]"}
Brackets == Openers \cup Closers

keywords ==
    << <<"r","e","m","a","s","t","e","r">>,
       <<"d","e","l","u","x","e">>,
       <<"b","o","n","u","s">>,
       <<"m","i","x">>,
       <<"m","i","x">>,
       <<"e","d","i","t","i","o","n">> >>

\* case folding of re.IGNORECASE on the model's characters
Lower(c) == CASE c = "M" -> "m" [] c = "A" -> "a" [] c = "B" -> "b"
              [] c = "C" -> "c" [] OTHER -> c

HasKeywordAt(s, i, k) ==
    /\ i + Len(k) - 1 <= Len(s)
    /\ \A j \in 1..Len(k) : Lower(s[i + j - 1]) = k[j]

ContainsKeyword(s) ==
    \E n \in 1..Len(keywords) : \E i \in 1..Len(s) : HasKeywordAt(s, i, keywords[n])

\* \s* : the first position at or after i that is not whitespace
RECURSIVE SkipSpace(_, _)
SkipSpace(s, i) ==
    IF i <= Len(s) /\ s[i] \in Whitespace THEN SkipSpace(s, i + 1) ELSE i

\* [^()\[\]]* : the first bracket character at or after i (0 if none)
RECURSIVE NextBracket(_, _)
NextBracket(s, i) ==
    IF i > Len(s) THEN 0
    ELSE IF s[i] \in Brackets THEN i
    ELSE NextBracket(s, i + 1)

\* the end of the match of the pattern starting at position i (0: no match)
MatchEnd(s, i) ==
    LET q == SkipSpace(s, i)
        r == IF q <= Len(s) THEN NextBracket(s, q + 1) ELSE 0
    IN  IF /\ q <= Len(s)
           /\ s[q] \in Openers
           /\ r # 0
           /\ s[r] \in Closers
           /\ ContainsKeyword(SubSeq(s, q + 1, r - 1))
        THEN r ELSE 0

\* re.sub(pattern, '', s): leftmost non-overlapping matches, one pass
RECURSIVE re_sub(_, _)
re_sub(s, i) ==
    IF i > Len(s) THEN <<>>
    ELSE LET e == MatchEnd(s, i)
         IN  IF e # 0 THEN re_sub(s, e + 1)
             ELSE <<s[i]>> \o re_sub(s, i + 1)

clean_album_title(t) == strip(re_sub(t, 1))

(***************************************************************************)
(* _clean_artist_name                                                      *)
(***************************************************************************)
\* mapping.get(name, name)
get(mapping, name) == IF name \in DOMAIN mapping THEN mapping[name] ELSE name

clean_artist_name(name) == get(artist_name_mapping, name)

(***************************************************************************)
(* DataFrames                                                              *)
(***************************************************************************)
DataFrame == [columns |-> {}, rows |-> <<>>]          \* pd.DataFrame()

empty(df) == df.columns = {} \/ df.rows = <<>>         \* DataFrame.empty

Column(df, c) == [i \in 1..Len(df.rows) |-> df.rows[i][c]]

\* Series.unique / pd.unique: distinct values in order of first appearance
RECURSIVE unique(_)
unique(s) ==
    IF s = <<>> THEN <<>>
    ELSE LET rest == unique(SubSeq(s, 1, Len(s) - 1))
             last == s[Len(s)]
         IN  IF \E i \in 1..Len(rest) : rest[i] = last
             THEN rest ELSE Append(rest, last)

RosterRow(a, n) == [c \in {"Artist", "Album Count"} |-> IF c = "Artist" THEN a ELSE n]

None == "None"

(***************************************************************************)
(* Files.  A CSV file is either one pd.read_csv raises on, or a header     *)
(* (the set of column labels) with rows; a text file is either one open()  *)
(* raises on, or a sequence of lines.                                      *)
(***************************************************************************)
CsvFile(cols, rows) == [ok |-> TRUE, columns |-> cols, rows |-> rows]
UnreadableCsv == [ok |-> FALSE, columns |-> {}, rows |-> <<>>]
TextFile(lines) == [ok |-> TRUE, lines |-> lines]
UnreadableText == [ok |-> FALSE, lines |-> <<>>]

read_csv(f) == [columns |-> f.columns, rows |-> f.rows]

Names == {<<"A">>, <<"B">>, <<"C">>}

MapRow(o, c) ==
    [k \in {"Original Name", "Cleaned Name"} |-> IF k = "Original Name" THEN o ELSE c]

\* mapping files of Spec: A is renamed to B or to C, possibly twice in one file
MapRowSamples == {MapRow(<<"A">>, <<"B">>), MapRow(<<"A">>, <<"C">>)}

MappingFiles ==
    {CsvFile({"Original Name", "Cleaned Name"}, rs) : rs \in SeqsUpTo(MapRowSamples, MaxMapRows)}
    \cup {CsvFile({"Original Name"}, <<[k \in {"Original Name"} |-> <<"A">>]>>),
          UnreadableCsv}

\* mapping files of SpecMap: any rename, and a Cleaned Name cell left blank
\* (read_csv yields a missing value for it, modelled as the empty string)
BlankableMappingFiles ==
    {CsvFile({"Original Name", "Cleaned Name"}, rs) :
        rs \in SeqsUpTo({MapRow(o, c) : o \in Names, c \in Names \cup {<<>>}}, MaxMapRows)}

ArtistRow(n) == [k \in {"name"} |-> n]

\* artist files of at most n rows with names among `names`, one without the
\* 'name' column, and one that cannot be read
ArtistFilesUpTo(names, n) ==
    {CsvFile({"name"}, [i \in 1..Len(ns) |-> ArtistRow(ns[i])]) : ns \in SeqsUpTo(names, n)}
    \cup {CsvFile({"artist"}, <<[k \in {"artist"} |-> <<"A">>]>>), UnreadableCsv}

AlbumRow(t, a, d) ==
    [k \in {"title", "artist", "releasedDate"} |->
        IF k = "title" THEN t ELSE IF k = "artist" THEN a ELSE d]

\* one album row per artist: a title with an edition note and a date, a plain
\* title with a text that is no date, a title with a group that is no edition note
AlbumRowOf(a) ==
    IF a = <<"A">> THEN AlbumRow(<<"x", " ", "(", "m", "i", "x", ")">>, a, "1969-09-26")
    ELSE IF a = <<"B">> THEN AlbumRow(<<"x">>, a, "someday")
    ELSE AlbumRow(<<"(", "x", ")">>, a, "1969-09-26")

\* an album file whose header lacks column k
AlbumFileWithout(k) ==
    CsvFile({"title", "artist", "releasedDate"} \ {k},
            <<[c \in {"title", "artist", "releasedDate"} \ {k} |->
                 AlbumRow(<<"x">>, <<"A">>, "1969-09-26")[c]]>>)

\* album files of at most n rows by artists among `names`, one file for each
\* missing column, and one that cannot be read
AlbumFilesUpTo(names, n) ==
    {CsvFile({"title", "artist", "releasedDate"}, rs) :
        rs \in SeqsUpTo({AlbumRowOf(a) : a \in names}, n)}
    \cup {AlbumFileWithout(k) : k \in {"title", "artist", "releasedDate"}}
    \cup {UnreadableCsv}

SeatedFiles ==
    {TextFile(ls) : ls \in SeqsUpTo({<<"B">>, <<" ", "C">>, <<" ">>}, MaxFollowed)}
    \cup {UnreadableText}

ExcludeFiles ==
    {TextFile(ls) : ls \in SeqsUpTo({<<"A", " ">>, <<"C">>}, MaxExcluded)}
    \cup {UnreadableText}

(***************************************************************************)
(* Loaders                                                                 *)
(***************************************************************************)
\* dict(zip(keys, values)): a later row replaces an earlier one with the same key
RECURSIVE dict_zip(_, _)
dict_zip(ks, vs) ==
    IF ks = <<>> THEN <<>>
    ELSE LET n == Len(ks)
             d == dict_zip(SubSeq(ks, 1, n - 1), SubSeq(vs, 1, n - 1))
         IN  [k \in DOMAIN d \cup {ks[n]} |-> IF k = ks[n] THEN vs[n] ELSE d[k]]

load_artist_mapping(f) ==
    LET mapping_df == read_csv(f)
        loaded == f.ok /\ {"Original Name", "Cleaned Name"} \subseteq mapping_df.columns
    IN  /\ artist_name_mapping' =
              IF loaded
              THEN dict_zip(Column(mapping_df, "Original Name"),
                            Column(mapping_df, "Cleaned Name"))
              ELSE artist_name_mapping
        /\ ret' = [op |-> "load_artist_mapping", val |-> None,
                   out |-> IF loaded THEN "loaded"
                           ELSE "Error loading artist cleanup mapping"]
        /\ mapping_late' =
              (mapping_late \/ (loaded /\ (artist_data # DataFrame \/ album_data # DataFrame)))
        /\ UNCHANGED <<artist_data, album_data, seated_artist_data, cleanup_review,
                       exclude_artists, title, artist_raw, album_raw>>

\* artist_data['name'].apply(...) on the table read from f, names looked up
\* in `mapping`
artist_table(f, mapping) ==
    LET df == read_csv(f)
    IN  [columns |-> df.columns,
         rows |-> [i \in 1..Len(df.rows) |->
                     [c \in df.columns |->
                        IF c = "name" THEN get(mapping, df.rows[i][c]) ELSE df.rows[i][c]]]]

cleaned_artist_data(f) == artist_table(f, artist_name_mapping)

load_artists(f) ==
    /\ artist_data' =
          IF ~f.ok THEN artist_data                       \* read_csv raised
          ELSE IF "name" \notin f.columns THEN read_csv(f)  \* ['name'] raised after the assignment
          ELSE cleaned_artist_data(f)
    /\ artist_raw' =
          IF ~f.ok THEN artist_raw
          ELSE IF "name" \notin f.columns THEN <<>>
          ELSE Column(read_csv(f), "name")
    /\ ret' = [op |-> "load_artists", val |-> None,
               out |-> IF f.ok /\ "name" \in f.columns THEN "loaded"
                       ELSE "Error loading artist data"]
    /\ UNCHANGED <<album_data, seated_artist_data, cleanup_review, artist_name_mapping,
                   exclude_artists, title, album_raw, mapping_late>>

rename_label(c) ==
    CASE c = "title" -> "Album Title"
      [] c = "artist" -> "Artist"
      [] c = "releasedDate" -> "Release Date"
      [] OTHER -> c

\* DataFrame.rename(columns=...)
rename(df) ==
    LET cols == {rename_label(c) : c \in df.columns}
    IN  [columns |-> cols,
         rows |-> [i \in 1..Len(df.rows) |->
                     [c2 \in cols |->
                        df.rows[i][CHOOSE c \in df.columns : rename_label(c) = c2]]]]

\* pd.to_datetime(errors='coerce') and .dt.year; dates and years are kept as text
NaT == "NaT"
NaN == "NaN"
to_datetime(s) == IF s = "1969-09-26" THEN s ELSE NaT
year(d) == IF d = "1969-09-26" THEN "1969" ELSE NaN

\* the album table of lines 41-52: renamed, with the original title kept, the
\* date parsed, the year derived, the title cleaned and the artist looked up in
\* `mapping`
album_table(f, mapping) ==
    LET df == rename(read_csv(f))
        cols == df.columns \cup {"Original Album Title", "Release Year"}
    IN  [columns |-> cols,
         rows |-> [i \in 1..Len(df.rows) |->
                     LET r == df.rows[i]
                     IN  [c \in cols |->
                            CASE c = "Original Album Title" -> r["Album Title"]
                              [] c = "Release Date" -> to_datetime(r["Release Date"])
                              [] c = "Release Year" -> year(to_datetime(r["Release Date"]))
                              [] c = "Album Title" -> clean_album_title(r["Album Title"])
                              [] c = "Artist" -> get(mapping, r["Artist"])
                              [] OTHER -> r[c]]]]

\* the album table with the Artist column left as read
album_data_unmapped(f) == album_table(f, <<>>)

cleaned_album_data(f) == album_table(f, artist_name_mapping)

\* df[cols]
select(df, cols) ==
    [columns |-> cols,
     rows |-> [i \in 1..Len(df.rows) |-> [c \in cols |-> df.rows[i][c]]]]

load_albums(f) ==
    LET loaded == f.ok /\ {"title", "artist", "releasedDate"} \subseteq f.columns
        album == cleaned_album_data(f)
        Changed(r) == r["Original Album Title"] # r["Album Title"]
    IN  /\ cleanup_review' =
              IF loaded
              THEN select([columns |-> album.columns, rows |-> SelectSeq(album.rows, Changed)],
                          {"Original Album Title", "Album Title"})
              ELSE cleanup_review
        /\ album_data' =
              IF loaded THEN select(album, album.columns \ {"Original Album Title"})
              ELSE album_data
        /\ album_raw' = IF loaded THEN Column(read_csv(f), "artist") ELSE album_raw
        /\ ret' = [op |-> "load_albums", val |-> None,
                   out |-> IF loaded THEN "loaded" ELSE "Error loading album data"]
        /\ UNCHANGED <<artist_data, seated_artist_data, artist_name_mapping,
                       exclude_artists, title, artist_raw, mapping_late>>

\* [line.strip() for line in file if line.strip()]
stripped_lines(f) ==
    LET NonBlank(l) == l # <<>>
    IN  SelectSeq([i \in 1..Len(f.lines) |-> strip(f.lines[i])], NonBlank)

load_exclude_artists(f) ==
    /\ exclude_artists' =
          IF f.ok THEN {stripped_lines(f)[i] : i \in 1..Len(stripped_lines(f))}
          ELSE exclude_artists
    /\ ret' = [op |-> "load_exclude_artists", val |-> None,
               out |-> IF f.ok THEN "loaded" ELSE "Error loading exclude list"]
    /\ UNCHANGED <<artist_data, album_data, seated_artist_data, cleanup_review,
                   artist_name_mapping, title, artist_raw, album_raw, mapping_late>>

\* load_seated_artists(filename) with fetch=False
load_seated_artists(f) ==
    /\ seated_artist_data' = IF f.ok THEN stripped_lines(f) ELSE seated_artist_data
    /\ ret' = [op |-> "load_seated_artists", val |-> None,
               out |-> IF f.ok THEN "loaded" ELSE "Error loading seated artist data"]
    /\ UNCHANGED <<artist_data, album_data, cleanup_review, artist_name_mapping,
                   exclude_artists, title, artist_raw, album_raw, mapping_late>>

(***************************************************************************)
(* Views                                                                   *)
(***************************************************************************)
\* value_counts counting each distinct value once, whatever its number of rows
value_counts_distinct(col) ==
    LET u == unique(col) IN [i \in 1..Len(u) |-> RosterRow(u[i], 1)]

\* Series.value_counts().to_frame('Album Count'): one row per distinct value.
\* The order of these rows never reaches a caller: the roster is re-sorted.
value_counts(col) ==
    LET u == unique(col)
    IN  [i \in 1..Len(u) |->
            RosterRow(u[i], Cardinality({j \in 1..Len(col) : col[j] = u[i]}))]

\* merge(album_counts, on='Artist', how='left').fillna(0), 'Album Count' as int
merge_left(names, album_counts) ==
    [i \in 1..Len(names) |->
        RosterRow(names[i],
                  IF \E j \in 1..Len(album_counts) : album_counts[j]["Artist"] = names[i]
                  THEN album_counts[CHOOSE j \in 1..Len(album_counts) :
                                       album_counts[j]["Artist"] = names[i]]["Album Count"]
                  ELSE 0)]

\* sort_values(by='Artist') of rows with distinct names
RECURSIVE sort_by_artist(_)
sort_by_artist(rows) ==
    IF rows = <<>> THEN <<>>
    ELSE LET n == Len(rows)
             m == CHOOSE i \in 1..n :
                     \A j \in 1..n : j # i => StrLess(rows[i]["Artist"], rows[j]["Artist"])
         IN  <<rows[m]>> \o sort_by_artist(SubSeq(rows, 1, m - 1) \o SubSeq(rows, m + 1, n))

\* what get_all_artists returns (val) and prints (out)
all_artists ==
    IF empty(artist_data) /\ empty(album_data)
    THEN [val |-> <<>>, out |-> "No artist or album data loaded."]
    ELSE IF \/ ~empty(artist_data) /\ "name" \notin artist_data.columns
            \/ "Artist" \notin album_data.columns
    THEN [val |-> <<>>, out |-> "Error: Missing expected column(s)"]   \* KeyError
    ELSE LET artist_names == IF ~empty(artist_data)
                             THEN unique(Column(artist_data, "name")) ELSE <<>>
             album_counts == value_counts(Column(album_data, "Artist"))
             all_artists_array == artist_names \o Column([rows |-> album_counts], "Artist")
         IN  [val |-> sort_by_artist(merge_left(unique(all_artists_array), album_counts)),
              out |-> ""]

get_all_artists ==
    /\ ret' = [op |-> "get_all_artists", val |-> all_artists.val, out |-> all_artists.out]
    /\ UNCHANGED <<artist_data, album_data, seated_artist_data, cleanup_review,
                   artist_name_mapping, exclude_artists, title, artist_raw, album_raw,
                   mapping_late>>

Orderings(n) == {p \in [1..n -> 1..n] : \A i, j \in 1..n : i # j => p[i] # p[j]}

\* sort_values(by='Album Count', ascending=False) with the default kind
\* 'quicksort', which is not stable: every ordering by descending count is a
\* possible result, rows of equal count in any order
sort_values_descending(rows) ==
    {r \in {[i \in 1..Len(rows) |-> rows[p[i]]] : p \in Orderings(Len(rows))} :
        \A i \in 1..(Len(r) - 1) : r[i]["Album Count"] >= r[i + 1]["Album Count"]}

\* the tables formatted_top_artists(num_albums) can return
top_artists(num_albums) ==
    LET AtLeast(r) == r["Album Count"] >= num_albums
    IN  IF all_artists.val = <<>> THEN {<<>>}
        ELSE sort_values_descending(SelectSeq(all_artists.val, AtLeast))

formatted_top_artists(num_albums) ==
    /\ \E r \in top_artists(num_albums) :
          ret' = [op |-> "formatted_top_artists", arg |-> num_albums, val |-> r]
    /\ UNCHANGED <<artist_data, album_data, seated_artist_data, cleanup_review,
                   artist_name_mapping, exclude_artists, title, artist_raw, album_raw,
                   mapping_late>>

set(s) == {s[i] : i \in 1..Len(s)}

\* the missing artists with the exclude set not subtracted
missing_artists_with_excluded ==
    IF all_artists.val = <<>> THEN <<>>
    ELSE sorted(set(Column([rows |-> all_artists.val], "Artist")) \ set(seated_artist_data))

\* the 'Missing Artist' column formatted_missing_seated_artists returns
missing_artists ==
    IF all_artists.val = <<>> THEN <<>>
    ELSE LET seated_artist_set == set(seated_artist_data)
             all_artists_set == set(Column([rows |-> all_artists.val], "Artist"))
         IN  sorted((all_artists_set \ seated_artist_set) \ exclude_artists)

formatted_missing_seated_artists ==
    /\ ret' = [op |-> "formatted_missing_seated_artists", val |-> missing_artists,
               out |-> IF all_artists.val = <<>>
                       THEN "No artist data available for comparison." ELSE ""]
    /\ UNCHANGED <<artist_data, album_data, seated_artist_data, cleanup_review,
                   artist_name_mapping, exclude_artists, title, artist_raw, album_raw,
                   mapping_late>>

\* the second list with the exclude set subtracted as in the first
missing_from_library_less_excluded ==
    IF all_artists.val = <<>> THEN <<>>
    ELSE sorted((set(seated_artist_data) \ set(Column([rows |-> all_artists.val], "Artist")))
                \ exclude_artists)

\* The second list of a reconciliation, followed artists absent from the
\* library.  manage_music_lib.py does not compute it; it is taken from the
\* description of the reconciler.
missing_from_library ==
    IF all_artists.val = <<>> THEN <<>>
    ELSE sorted(set(seated_artist_data) \ set(Column([rows |-> all_artists.val], "Artist")))

reconcile_missing_from_library ==
    /\ ret' = [op |-> "missing_from_library", val |-> missing_from_library,
               out |-> IF all_artists.val = <<>> THEN "no data available" ELSE ""]
    /\ UNCHANGED <<artist_data, album_data, seated_artist_data, cleanup_review,
                   artist_name_mapping, exclude_artists, title, artist_raw, album_raw,
                   mapping_late>>

\* a call of _clean_album_title(title)
call_clean_album_title ==
    /\ ret' = [op |-> "_clean_album_title", arg |-> title, val |-> clean_album_title(title)]
    /\ UNCHANGED <<artist_data, album_data, seated_artist_data, cleanup_review,
                   artist_name_mapping, exclude_artists, title, artist_raw, album_raw,
                   mapping_late>>

\* a call of _clean_artist_name(name)
call_clean_artist_name(name) ==
    /\ ret' = [op |-> "_clean_artist_name", arg |-> name, val |-> clean_artist_name(name)]
    /\ UNCHANGED <<artist_data, album_data, seated_artist_data, cleanup_review,
                   artist_name_mapping, exclude_artists, title, artist_raw, album_raw,
                   mapping_late>>

(***************************************************************************)
(* Specifications                                                          *)
(***************************************************************************)
\* MusicManager.__init__
Init ==
    /\ artist_data = DataFrame
    /\ album_data = DataFrame
    /\ seated_artist_data = <<>>
    /\ cleanup_review = DataFrame
    /\ artist_name_mapping = <<>>
    /\ exclude_artists = {}
    /\ ret = [op |-> "__init__", val |-> None]
    /\ title = <<>>
    /\ artist_raw = <<>>
    /\ album_raw = <<>>
    /\ mapping_late = FALSE

\* the catalog: mapping, artists and albums loaded in any order, and the roster views
Next ==
    \/ \E f \in MappingFiles : load_artist_mapping(f)
    \/ \E f \in ArtistFilesUpTo({<<"A">>, <<"B">>}, MaxArtistRows) : load_artists(f)
    \/ \E f \in AlbumFilesUpTo({<<"A">>, <<"B">>}, MaxAlbumRows) : load_albums(f)
    \/ get_all_artists
    \/ \E n \in 0..MaxAlbumRows : formatted_top_artists(n)

Spec == Init /\ [][Next]_vars

\* the reconciliation: library, followed list and exclude set loaded in any order
NextReconcile ==
    \/ \E f \in ArtistFilesUpTo({<<"A">>, <<"B">>}, MaxLibRows) : load_artists(f)
    \/ \E f \in AlbumFilesUpTo({<<"B">>, <<"C">>}, MaxLibRows) : load_albums(f)
    \/ \E f \in SeatedFiles : load_seated_artists(f)
    \/ \E f \in ExcludeFiles : load_exclude_artists(f)
    \/ formatted_missing_seated_artists
    \/ reconcile_missing_from_library

SpecReconcile == Init /\ [][NextReconcile]_vars

\* _clean_album_title on the titles made of at most MaxChunks of these pieces
Chunks == {<<"(">>, <<")">>, <<"[">>, <<"]">>, <<" ">>, <<"m", "i", "x">>, <<"M", "i">>, <<"x">>}

RECURSIVE Flatten(_)
Flatten(cs) == IF cs = <<>> THEN <<>> ELSE Head(cs) \o Flatten(Tail(cs))

Titles == {Flatten(cs) : cs \in SeqsUpTo(Chunks, MaxChunks)}

InitTitle ==
    /\ artist_data = DataFrame
    /\ album_data = DataFrame
    /\ seated_artist_data = <<>>
    /\ cleanup_review = DataFrame
    /\ artist_name_mapping = <<>>
    /\ exclude_artists = {}
    /\ ret = [op |-> "__init__", val |-> None]
    /\ title \in Titles
    /\ artist_raw = <<>>
    /\ album_raw = <<>>
    /\ mapping_late = FALSE

NextTitle == call_clean_album_title

SpecTitle == InitTitle /\ [][NextTitle]_vars

\* _clean_artist_name under every mapping a mapping file can load
NextMap ==
    \/ \E f \in BlankableMappingFiles : load_artist_mapping(f)
    \/ \E n \in Names \cup {<<>>} : call_clean_artist_name(n)

SpecMap == Init /\ [][NextMap]_vars

(***************************************************************************)
(* Properties                                                              *)
(***************************************************************************)
Ascending(names) ==
    \A i, j \in 1..Len(names) : i < j => StrLess(names[i], names[j])

RosterNames(roster) == {roster[i]["Artist"] : i \in 1..Len(roster)}

\* C1: title cleaning is idempotent: cleaning the result of _clean_album_title
\* again returns it unchanged.
C1_Idempotent ==
    ret.op = "_clean_album_title" => clean_album_title(ret.val) = ret.val

\* the end of a group as C8 describes it at position i: whitespace, an opener,
\* no further bracket before the closer, a keyword inside, and the closer that
\* matches the opener (0: no such group)
C8_GroupEnd(s, i) ==
    LET q == SkipSpace(s, i)
        r == IF q <= Len(s) THEN NextBracket(s, q + 1) ELSE 0
    IN  IF /\ q <= Len(s)
           /\ s[q] \in Openers
           /\ r # 0
           /\ s[r] = (IF s[q] = "(" THEN ")" ELSE "]")
           /\ ContainsKeyword(SubSeq(s, q + 1, r - 1))
        THEN r ELSE 0

RECURSIVE C8_WithoutGroups(_, _)
C8_WithoutGroups(s, i) ==
    IF i > Len(s) THEN <<>>
    ELSE LET e == C8_GroupEnd(s, i)
         IN  IF e # 0 THEN C8_WithoutGroups(s, e + 1)
             ELSE <<s[i]>> \o C8_WithoutGroups(s, i + 1)

\* C8: _clean_album_title removes exactly the bracket groups that contain a
\* keyword and no other bracket and are closed by the bracket matching their
\* opener, with the whitespace before them, and trims; everything else is kept.
C8_OnlyMatchedGroups ==
    ret.op = "_clean_album_title" => ret.val = strip(C8_WithoutGroups(ret.arg, 1))

\* C9: _clean_artist_name returns mapping[n] for a key n and n otherwise, and
\* never returns an empty value for a non-empty n.
C9_MappingTotality ==
    ret.op = "_clean_artist_name" =>
        /\ ret.val = (IF ret.arg \in DOMAIN artist_name_mapping
                      THEN artist_name_mapping[ret.arg] ELSE ret.arg)
        /\ (ret.arg # <<>> => ret.val # <<>>)

\* the artist names the stored tables hold
StoredNames ==
    (IF "name" \in artist_data.columns THEN set(Column(artist_data, "name")) ELSE {})
    \cup (IF "Artist" \in album_data.columns THEN set(Column(album_data, "Artist")) ELSE {})

\* C2: roster completeness: every artist name of the stored artist table or the
\* stored album table appears exactly once in the roster get_all_artists returns.
C2_RosterComplete ==
    ret.op = "get_all_artists" =>
        \A n \in StoredNames :
            Cardinality({i \in 1..Len(ret.val) : ret.val[i]["Artist"] = n}) = 1

\* both name columns are the image of their raw values under the loaded mapping
BothMappedByCurrent ==
    /\ "name" \in artist_data.columns =>
          Column(artist_data, "name")
            = [i \in 1..Len(artist_raw) |-> clean_artist_name(artist_raw[i])]
    /\ "Artist" \in album_data.columns =>
          Column(album_data, "Artist")
            = [i \in 1..Len(album_raw) |-> clean_artist_name(album_raw[i])]

\* C5 as stated: in every state reachable by any ordering of the loads, both
\* name columns are the image of their raw values under the loaded mapping.
C5_AnyOrdering == BothMappedByCurrent

\* C5 amended: the same, in the states reached without a successful
\* load_artist_mapping after a table was stored (main loads the mapping first).
C5_MappingFirst == ~mapping_late => BothMappedByCurrent

\* C5 happens: a mapping loaded first has renamed a raw name in each table
C5_Witness ==
    /\ ~mapping_late
    /\ "name" \in artist_data.columns
    /\ "Artist" \in album_data.columns
    /\ \E i \in 1..Len(artist_raw) : artist_data.rows[i]["name"] # artist_raw[i]
    /\ \E j \in 1..Len(album_raw) : album_data.rows[j]["Artist"] # album_raw[j]

\* C6: a load that fails leaves its own table empty and the other tables as
\* they were.
C6_FailedLoadLeavesEmpty ==
    [][/\ (ret'.op = "load_artists" /\ ret'.out = "Error loading artist data") =>
             /\ empty(artist_data')
             /\ UNCHANGED <<album_data, cleanup_review, artist_name_mapping>>
       /\ (ret'.op = "load_albums" /\ ret'.out = "Error loading album data") =>
             /\ empty(album_data')
             /\ UNCHANGED <<artist_data, artist_name_mapping>>]_vars

\* C7: formatted_top_artists(num_albums) returns exactly the roster entries
\* with Album Count >= num_albums, by Album Count descending, entries of equal
\* count in ascending order of artist name.
C7_TopArtistsStable ==
    ret.op = "formatted_top_artists" =>
        /\ set(ret.val) = {r \in set(all_artists.val) : r["Album Count"] >= ret.arg}
        /\ \A i, j \in 1..Len(ret.val) : i < j =>
              \/ ret.val[i]["Album Count"] > ret.val[j]["Album Count"]
              \/ /\ ret.val[i]["Album Count"] = ret.val[j]["Album Count"]
                 /\ StrLess(ret.val[i]["Artist"], ret.val[j]["Artist"])

\* C10: each roster entry's Album Count is the number of rows of the stored
\* album table whose Artist is the entry's name, 0 for an artist without albums.
C10_AlbumCount ==
    ret.op = "get_all_artists" =>
        \A i \in 1..Len(ret.val) :
            ret.val[i]["Album Count"]
              = Cardinality({j \in 1..Len(album_data.rows) :
                               album_data.rows[j]["Artist"] = ret.val[i]["Artist"]})

\* C10 happens: two different raw names share one entry of count 2, and an
\* artist without albums has count 0
C10_Witness ==
    /\ ret.op = "get_all_artists"
    /\ \E i \in 1..Len(ret.val) : ret.val[i]["Album Count"] = 0
    /\ \E i \in 1..Len(ret.val) : ret.val[i]["Album Count"] = 2
    /\ \E j, k \in 1..Len(album_raw) :
          /\ album_raw[j] # album_raw[k]
          /\ album_data.rows[j]["Artist"] = album_data.rows[k]["Artist"]

\* C3: for a non-empty roster, formatted_missing_seated_artists returns the
\* library names that are neither followed nor excluded, each once, ascending.
C3_MissingFromFollowed ==
    (ret.op = "formatted_missing_seated_artists" /\ all_artists.val # <<>>) =>
        /\ set(ret.val) = {n \in RosterNames(all_artists.val) :
                             n \notin set(seated_artist_data) /\ n \notin exclude_artists}
        /\ Ascending(ret.val)

\* C3 happens: a library name is reported while another is held back as excluded
C3_Witness ==
    /\ ret.op = "formatted_missing_seated_artists"
    /\ ret.val # <<>>
    /\ \E n \in RosterNames(all_artists.val) : n \in exclude_artists

====
